---- MODULE Spec2Model ----
(***************************************************************************)
(* Job Nexus API (src/main.py): the job catalog (seed-on-empty, list with  *)
(* q/tags filters, create) and the LinkedIn OAuth callback flow (token     *)
(* exchange, profile fetch, email fetch, normalisation, upsert) with the   *)
(* profile lookup.  Every request is a process; a request yields at each   *)
(* blocking call (outbound HTTP call, store call), so requests interleave  *)
(* at those points.                                                        *)
(***************************************************************************)
EXTENDS Integers, Sequences, FiniteSets, TLC

VARIABLES
    cfg,        \* LINKEDIN_CLIENT_ID / _SECRET / _REDIRECT_URI, read once at start
    db,         \* TRUE iff `db is not None`
    clock,      \* wall clock read by datetime.now
    profiles,   \* collection "linkedinprofile": documents in natural order
    cb,         \* callback requests: position, locals, outbound-call log
    wlog,       \* upserts applied to "linkedinprofile", in the order applied
    jobs,       \* collection "job": jobs[k] documents have the content Catalog[k]
    lst,        \* list requests: position, locals, insert log
    ncreated,   \* create requests handled so far
    resp        \* HTTP response emitted by the step just taken (NoResp if none)

vars == <<cfg, db, clock, profiles, wlog, cb, jobs, lst, ncreated, resp>>

-----------------------------------------------------------------------------
(* Bounds *)

NCallbacks == 2      \* callback requests in one run
NLists == 2          \* list requests in one run
MaxCreated == 1      \* create_job requests in one run

Callbacks == 1..NCallbacks
Lists == 1..NLists

-----------------------------------------------------------------------------
(* Python / JSON values.  A value is tagged with its type so that the      *)
(* dynamic failures of the extraction code (AttributeError, IndexError,    *)
(* KeyError, TypeError) are computed and not assumed.                      *)

JNull == [t |-> "null"]
JStr(s) == [t |-> "str", v |-> s]
JArr(s) == [t |-> "arr", v |-> s]
JObj(f) == [t |-> "obj", v |-> f]
Raise == [t |-> "raise"]
EmptyObj == JObj(<<>>)
EmptyArr == JArr(<<>>)

\* bool(x) of a Python value
Truthy(x) ==
    CASE x.t = "str" -> x.v # ""
      [] x.t = "arr" -> Len(x.v) > 0
      [] x.t = "obj" -> DOMAIN x.v # {}
      [] OTHER -> FALSE

\* x.get(k, dflt): AttributeError unless x is a dict
PyGet(x, k, dflt) ==
    IF x.t # "obj" THEN Raise
    ELSE IF k \in DOMAIN x.v THEN x.v[k] ELSE dflt

\* x[k] with a string key: KeyError / TypeError unless x is a dict holding k
PyItem(x, k) ==
    IF x.t = "obj" /\ k \in DOMAIN x.v THEN x.v[k] ELSE Raise

\* x[0]: IndexError on an empty list, KeyError / TypeError on the rest.
\* (Indexing a str yields a str, on which the following .get or ["..."]
\*  raises; that case is folded into Raise here.)
PyFirst(x) ==
    IF x.t = "arr" /\ Len(x.v) > 0 THEN x.v[1] ELSE Raise

\* x[-1]
PyLast(x) ==
    IF x.t = "arr" /\ Len(x.v) > 0 THEN x.v[Len(x.v)] ELSE Raise

\* x or dflt
PyOr(x, dflt) == IF Truthy(x) THEN x ELSE dflt

-----------------------------------------------------------------------------
(* Provider responses *)

TokenResponses ==
    { [status |-> 200, text |-> "tok-ok",  body |-> JObj([access_token |-> JStr("AT")])],
      [status |-> 200, text |-> "tok-none", body |-> EmptyObj],
      [status |-> 401, text |-> "tok-401", body |-> EmptyObj],
      [status |-> 500, text |-> "tok-500", body |-> EmptyObj] }

Picture(url) ==
    JObj("displayImage~" :> JObj([ elements |-> JArr(<<
        JObj([ identifiers |-> JArr(<< JObj([ identifier |-> JStr("small.png") ]) >>) ]),
        JObj([ identifiers |-> JArr(<< JObj([ identifier |-> JStr(url) ]) >>) ]) >>) ]))

MeBodies ==
    { JObj([ id |-> JStr("42"), localizedFirstName |-> JStr("Ada"),
             localizedLastName |-> JStr("Lovelace"), headline |-> JStr("Engineer"),
             profilePicture |-> Picture("ada.png"),
             primaryLocale |-> JObj([language |-> JStr("en"), country |-> JStr("US")]) ]),
      JObj([ id |-> JStr("42"), localizedFirstName |-> JStr("Ada"),
             primaryLocale |-> JObj([language |-> JStr("en")]),
             profilePicture |-> JObj("displayImage~" :> JObj([ elements |-> EmptyArr ])) ]),
      JObj([ localizedLastName |-> JStr("Hopper") ]) }

MeResponses ==
    { [status |-> 200, text |-> "me-ok", body |-> m] : m \in MeBodies }
    \cup { [status |-> 403, text |-> "me-403", body |-> EmptyObj] }

Handle(h) == JObj([ elements |-> JArr(<< JObj("handle~" :> h) >>) ])

EmailBodies ==
    { Handle(JObj([ emailAddress |-> JStr("ada@x.org") ])),   \* well formed
      Handle(EmptyObj),                                       \* no emailAddress
      Handle(JNull),                                          \* handle~ is null
      Handle(JStr("ada@x.org")),                              \* handle~ is a string
      JObj([ elements |-> JArr(<< EmptyObj >>) ]),            \* element without handle~
      JObj([ elements |-> JArr(<< JNull >>) ]),               \* element is null
      JObj([ elements |-> EmptyArr ]),                        \* no element
      JObj([ elements |-> JNull ]),                           \* elements is null
      EmptyObj,                                               \* no elements key
      EmptyArr,                                               \* body is a list
      JNull }                                                 \* body is null

EmailResponses ==
    { [status |-> 200, text |-> "em-ok", body |-> b] : b \in EmailBodies }
    \cup { [status |-> 404, text |-> "em-404",
            body |-> Handle(JObj([ emailAddress |-> JStr("ada@x.org") ]))],
           [status |-> 500, text |-> "em-500", body |-> EmptyObj] }

-----------------------------------------------------------------------------
(* Configuration (main.py 174-176) *)

EnvValues == { JNull, JStr(""), JStr("set") }     \* os.getenv: None or a string

\* main.py 199: LINKEDIN_CLIENT_ID and LINKEDIN_CLIENT_SECRET and LINKEDIN_REDIRECT_URI
\* variant of CallbackConfigured that tests what linkedin_login tests (C6)
CallbackConfigured_login == Truthy(cfg.id) /\ Truthy(cfg.redirect)
CallbackConfigured == Truthy(cfg.id) /\ Truthy(cfg.secret) /\ Truthy(cfg.redirect)

\* main.py 181: LINKEDIN_CLIENT_ID and LINKEDIN_REDIRECT_URI
LoginConfigured == Truthy(cfg.id) /\ Truthy(cfg.redirect)

-----------------------------------------------------------------------------
(* linkedin_callback: the pure parts *)

\* main.py 215: token_resp.status_code != 200
\* variant of TokenFailed that lets every status through (C1)
TokenFailed_never(r) == FALSE
TokenFailed(r) == r.status # 200

\* main.py 230: me_resp.status_code != 200
\* variant of MeFailed that lets every status through (C16)
MeFailed_never(r) == FALSE
MeFailed(r) == r.status # 200

\* main.py 277, 300: db is None
\* variant of DbIsNone that never sees the store missing (C13)
DbIsNone_never == FALSE
DbIsNone == ~db

\* main.py 217-219: token_json.get("access_token")
\* variant of AccessToken with a default for the missing field (C11)
AccessToken_default(r) == PyGet(r.body, "access_token", JStr("AT"))
AccessToken(r) == PyGet(r.body, "access_token", JNull)

\* main.py 243-246: try: ... except Exception: email = None
\* variant of ExceptNone that lets the exception escape (C5)
ExceptNone_reraise(v) == v
ExceptNone(v) == IF v = Raise THEN JNull ELSE v

\* main.py 240-246
ExtractEmail(r) ==
    IF r.status = 200
    THEN ExceptNone(PyGet(PyGet(PyFirst(PyGet(r.body, "elements", EmptyArr)),
                                "handle~", EmptyObj),
                          "emailAddress", JNull))
    ELSE JNull

\* main.py 249-257
ExtractAvatar(me) ==
    LET imgs == PyItem(PyItem(PyItem(me, "profilePicture"), "displayImage~"), "elements")
    IN  IF imgs = Raise THEN JNull
        ELSE IF ~Truthy(imgs) THEN JNull
        ELSE ExceptNone(PyGet(PyFirst(PyItem(PyLast(imgs), "identifiers")),
                              "identifier", JNull))

\* main.py 261: " ".join([p for p in [first_name, last_name] if p]) or None
FullName(first, last) ==
    LET parts == SelectSeq(<<first, last>>, Truthy)
    IN  CASE Len(parts) = 0 -> JNull
          [] Len(parts) = 1 -> parts[1]
          [] OTHER -> JStr(parts[1].v \o " " \o parts[2].v)

\* main.py 272
Locale(me) ==
    LET loc == PyGet(me, "primaryLocale", EmptyObj)
        lang == PyOr(PyGet(loc, "language", JNull), JStr(""))
        country == PyGet(loc, "country", JNull)
    IN  JStr(lang.v \o (IF Truthy(country) THEN "_" \o country.v ELSE ""))

\* main.py 259-274: LinkedInProfile(...).model_dump()
BuildProfile(me, email) ==
    LET first == PyGet(me, "localizedFirstName", JNull)
        last == PyGet(me, "localizedLastName", JNull)
    IN  [ linkedin_id |-> PyOr(PyGet(me, "id", JNull), JStr("")),
          first_name |-> first,
          last_name |-> last,
          full_name |-> FullName(first, last),
          email |-> email,
          headline |-> PyGet(me, "headline", JNull),
          avatar_url |-> ExtractAvatar(me),
          locale |-> Locale(me),
          raw |-> JObj([me |-> me]) ]

\* datetime.isoformat(): a string rendering of the timestamp
IsoFormat(t) == <<"iso", t>>

\* the documents of coll matching {"linkedin_id": id}, by position
Matching(coll, id) == { i \in 1..Len(coll) : coll[i].linkedin_id = id }

Min(S) == CHOOSE x \in S : \A y \in S : x <= y

\* main.py 281-288: update_one(filter, {$set, $setOnInsert}, upsert=True).
\* The store applies the whole update atomically.
\* variants of UpdateOneUpsert: one that always inserts (C2), one that puts
\* created_at under $set (C3), one that replaces the collection by the
\* written document (C15), one that leaves out of $set the fields that are
\* None (C18)
UpdateOneUpsert_dropothers(coll, profile, now) ==
    LET m == Matching(coll, profile.linkedin_id)
        set == [ updated_at |-> now ] @@ profile
        setOnInsert == [ created_at |-> now ]
    IN  IF m = {}
        THEN << [ oid |-> Len(coll) + 1 ] @@ set @@ setOnInsert >>
        ELSE << set @@ coll[Min(m)] >>
UpdateOneUpsert_merge(coll, profile, now) ==
    LET m == Matching(coll, profile.linkedin_id)
        set == [ updated_at |-> now ] @@ profile
        setOnInsert == [ created_at |-> now ]
    IN  IF m = {}
        THEN Append(coll, [ oid |-> Len(coll) + 1 ] @@ set @@ setOnInsert)
        ELSE [coll EXCEPT ![Min(m)] =
                 [ k \in DOMAIN @ |->
                     IF k = "updated_at" THEN now
                     ELSE IF k \in DOMAIN profile /\ profile[k] # JNull
                     THEN profile[k] ELSE @[k] ]]
UpdateOneUpsert_insert(coll, profile, now) ==
    Append(coll, [ oid |-> Len(coll) + 1, updated_at |-> now, created_at |-> now ] @@ profile)
UpdateOneUpsert_setcreated(coll, profile, now) ==
    LET m == Matching(coll, profile.linkedin_id)
        doc == [ oid |-> Len(coll) + 1, updated_at |-> now, created_at |-> now ] @@ profile
    IN  IF m = {} THEN Append(coll, doc)
        ELSE [coll EXCEPT ![Min(m)] = [doc EXCEPT !.oid = coll[Min(m)].oid]]
UpdateOneUpsert(coll, profile, now) ==
    LET m == Matching(coll, profile.linkedin_id)
        set == [ updated_at |-> now ] @@ profile
        setOnInsert == [ created_at |-> now ]
    IN  IF m = {}
        THEN Append(coll, [ oid |-> Len(coll) + 1 ] @@ set @@ setOnInsert)
        ELSE [coll EXCEPT ![Min(m)] = set @@ @]

\* main.py 302: find_one({"linkedin_id": linkedin_id})
\* variant of FindOne that ignores the filter (C7)
FindOne_any(coll, id) ==
    IF coll = <<>> THEN JNull ELSE coll[1]
FindOne(coll, id) ==
    LET m == Matching(coll, id)
    IN  IF m = {} THEN JNull ELSE coll[Min(m)]

-----------------------------------------------------------------------------
(* Requests *)

NoResp == [op |-> "none"]

Codes == { "code-1" }
States == { JNull, JStr("static_state"), JStr("forged") }
LookupIds == { "42", "7" }

\* a callback request before its first step
NewCallback ==
    [ pc |-> "start",     \* start, token, me, email, upsert, done
      tok |-> 0,          \* token_resp.status_code (0: no response yet)
      nofield |-> FALSE,  \* the token response had no access_token field
      mes |-> 0,          \* me_resp.status_code
      me |-> JNull,       \* me
      emfail |-> FALSE,   \* the email response was non-200 or not of the expected shape
      profile |-> JNull,  \* profile.model_dump()
      now |-> 0,          \* now
      calls |-> <<>>,     \* outbound calls made so far
      status |-> 0 ]      \* HTTP status of the response (0: none yet)

\* The expected shape of the email response (main.py 236: elements*(handle~)).
EmailWellFormed(b) ==
    /\ b.t = "obj" /\ "elements" \in DOMAIN b.v
    /\ b.v["elements"].t = "arr" /\ Len(b.v["elements"].v) > 0
    /\ b.v["elements"].v[1].t = "obj" /\ "handle~" \in DOMAIN b.v["elements"].v[1].v
    /\ b.v["elements"].v[1].v["handle~"].t = "obj"
    /\ "emailAddress" \in DOMAIN b.v["elements"].v[1].v["handle~"].v
    /\ b.v["elements"].v[1].v["handle~"].v["emailAddress"].t = "str"

\* raise HTTPException(status_code, detail), also an uncaught exception (500)
Fail(c, st, detail) ==
    /\ cb' = [cb EXCEPT ![c].pc = "done", ![c].status = st,
                        ![c].me = JNull, ![c].profile = JNull, ![c].now = 0]
    /\ resp' = [op |-> "callback", req |-> c, status |-> st, detail |-> detail]

\* main.py 198-200: the request arrives with its code and state;
\* configuration check
\* variant of callback_arrives that rejects a state other than the one
\* linkedin_login issues (C19)
callback_arrives_checked(c, code, state) ==
    /\ cb[c].pc = "start"
    /\ IF ~CallbackConfigured \/ state # JStr("static_state")
       THEN Fail(c, 400, <<"LinkedIn OAuth is not configured">>)
       ELSE /\ cb' = [cb EXCEPT ![c].pc = "token"]
            /\ resp' = NoResp
    /\ UNCHANGED <<cfg, db, clock, profiles, wlog, jobs, lst, ncreated>>
callback_arrives(c, code, state) ==
    /\ cb[c].pc = "start"
    /\ IF ~CallbackConfigured
       THEN Fail(c, 400, <<"LinkedIn OAuth is not configured">>)
       ELSE /\ cb' = [cb EXCEPT ![c].pc = "token"]
            /\ resp' = NoResp
    /\ UNCHANGED <<cfg, db, clock, profiles, wlog, jobs, lst, ncreated>>

linkedin_callback_config(c) ==
    \E code \in Codes, state \in States : callback_arrives(c, code, state)

\* main.py 203-222: token exchange
linkedin_callback_token(c) ==
    /\ cb[c].pc = "token"
    /\ \E r \in TokenResponses :
        LET called == [cb EXCEPT ![c].calls = Append(@, "token"), ![c].tok = r.status,
                                 ![c].nofield = ("access_token" \notin DOMAIN r.body.v)]
        IN  IF TokenFailed(r)
            THEN /\ cb' = [called EXCEPT ![c].pc = "done", ![c].status = r.status]
                 /\ resp' = [op |-> "callback", req |-> c, status |-> r.status,
                             detail |-> <<"LinkedIn token exchange failed", r.text>>]
            ELSE IF ~Truthy(AccessToken(r))
            THEN /\ cb' = [called EXCEPT ![c].pc = "done", ![c].status = 400]
                 /\ resp' = [op |-> "callback", req |-> c, status |-> 400,
                             detail |-> <<"No access token in response">>]
            ELSE /\ cb' = [called EXCEPT ![c].pc = "me"]
                 /\ resp' = NoResp
    /\ UNCHANGED <<cfg, db, clock, profiles, wlog, jobs, lst, ncreated>>

\* main.py 225-232: profile fetch
linkedin_callback_me(c) ==
    /\ cb[c].pc = "me"
    /\ \E r \in MeResponses :
        LET called == [cb EXCEPT ![c].calls = Append(@, "me"), ![c].mes = r.status]
        IN  IF MeFailed(r)
            THEN /\ cb' = [called EXCEPT ![c].pc = "done", ![c].status = r.status]
                 /\ resp' = [op |-> "callback", req |-> c, status |-> r.status,
                             detail |-> <<"LinkedIn /me failed", r.text>>]
            ELSE /\ cb' = [called EXCEPT ![c].pc = "email", ![c].me = r.body]
                 /\ resp' = NoResp
    /\ UNCHANGED <<cfg, db, clock, profiles, wlog, jobs, lst, ncreated>>

\* main.py 235-280: email fetch, avatar extraction, normalisation, store
\* check, and the reading of the clock
linkedin_callback_email(c) ==
    /\ cb[c].pc = "email"
    /\ \E r \in EmailResponses :
        LET email == ExtractEmail(r)
            called == [cb EXCEPT ![c].calls = Append(@, "email"),
                                 ![c].emfail = (r.status # 200 \/ ~EmailWellFormed(r.body)),
                                 ![c].me = JNull]
        IN  IF email = Raise
            THEN /\ cb' = [called EXCEPT ![c].pc = "done", ![c].status = 500]
                 /\ resp' = [op |-> "callback", req |-> c, status |-> 500,
                             detail |-> <<"Internal Server Error">>]
                 /\ clock' = clock
            ELSE IF DbIsNone
            THEN /\ cb' = [called EXCEPT ![c].pc = "done", ![c].status = 500]
                 /\ resp' = [op |-> "callback", req |-> c, status |-> 500,
                             detail |-> <<"Database not available">>]
                 /\ clock' = clock
            ELSE /\ cb' = [called EXCEPT ![c].pc = "upsert",
                                         ![c].profile = BuildProfile(cb[c].me, email),
                                         ![c].now = clock]
                 /\ clock' = clock + 1
                 /\ resp' = NoResp
    /\ UNCHANGED <<cfg, db, profiles, wlog, jobs, lst, ncreated>>

\* main.py 281-295: upsert and response
linkedin_callback_upsert(c) ==
    /\ cb[c].pc = "upsert"
    /\ profiles' = UpdateOneUpsert(profiles, cb[c].profile, cb[c].now)
    /\ wlog' = Append(wlog, [ req |-> c, id |-> cb[c].profile.linkedin_id,
                              now |-> cb[c].now, profile |-> cb[c].profile ])
    /\ cb' = [cb EXCEPT ![c].pc = "done", ![c].status = 200,
                        ![c].profile = JNull, ![c].now = 0]
    /\ resp' = [op |-> "callback", req |-> c, status |-> 200,
                body |-> [ created_at |-> IsoFormat(cb[c].now),
                           updated_at |-> IsoFormat(cb[c].now) ] @@ cb[c].profile]
    /\ UNCHANGED <<cfg, db, clock, jobs, lst, ncreated>>

\* main.py 298-306
get_linked_in_user(id) ==
    /\ LET doc == FindOne(profiles, JStr(id))
       IN  resp' = IF DbIsNone
                   THEN [op |-> "lookup", id |-> id, status |-> 500,
                         detail |-> <<"Database not available">>]
                   ELSE IF doc = JNull
                   THEN [op |-> "lookup", id |-> id, status |-> 404,
                         detail |-> <<"Profile not found">>]
                   ELSE [op |-> "lookup", id |-> id, status |-> 200,
                         body |-> [ k \in (DOMAIN doc \ {"oid"}) \cup {"id"} |->
                                       IF k = "id" THEN <<"str", doc.oid>> ELSE doc[k] ]]
    /\ UNCHANGED <<cfg, db, clock, profiles, wlog, cb, jobs, lst, ncreated>>

\* main.py 179-194
linkedin_login ==
    /\ resp' = IF ~LoginConfigured
               THEN [op |-> "login", status |-> 400,
                     detail |-> <<"LinkedIn OAuth is not configured">>]
               ELSE [op |-> "login", status |-> 200,
                     body |-> [ auth_url |-> <<"https://www.linkedin.com/oauth/v2/authorization",
                                               "code", cfg.id.v, <<"quote", cfg.redirect.v>>,
                                               <<"quote", "r_liteprofile r_emailaddress">>,
                                               "static_state">>,
                                state |-> "static_state" ]]
    /\ UNCHANGED <<cfg, db, clock, profiles, wlog, cb, jobs, lst, ncreated>>

-----------------------------------------------------------------------------
(* Job catalog.  A string is the sequence of its characters; a character   *)
(* outside ASCII is written by its code point.  The collection "job" is a  *)
(* bag of documents: the store promises no order of retrieval, and an      *)
(* ObjectId is an opaque unique value, here the pair of the document's     *)
(* content (by its position in Catalog) and its copy number.               *)

\* main.py 76-112
SAMPLE_JOBS ==
    << [ title |-> <<"S","e","n","i","o","r"," ","F","r","o","n","t","e","n","d"," ","E","n","g","i","n","e","e","r">>,
         company |-> <<"L","i","n","k","e","d","I","n">>,
         location |-> <<"R","e","m","o","t","e"," ","U+2022"," ","U","S">>,
         tags |-> << <<"R","e","a","c","t">>,
                   <<"T","y","p","e","S","c","r","i","p","t">>,
                   <<"A","c","c","e","s","s","i","b","i","l","i","t","y">> >>,
         match |-> 92 ],
       [ title |-> <<"D","a","t","a"," ","S","c","i","e","n","t","i","s","t",","," ","N","L","P">>,
         company |-> <<"I","n","d","e","e","d">>,
         location |-> <<"A","u","s","t","i","n",","," ","T","X">>,
         tags |-> << <<"P","y","t","h","o","n">>,
                   <<"N","L","P">>,
                   <<"H","u","g","g","i","n","g","F","a","c","e">> >>,
         match |-> 88 ],
       [ title |-> <<"D","e","v","O","p","s"," ","E","n","g","i","n","e","e","r">>,
         company |-> <<"S","e","e","k"," ","(","A","U",")">>,
         location |-> <<"S","y","d","n","e","y",","," ","A","U">>,
         tags |-> << <<"A","W","S">>,
                   <<"K","u","b","e","r","n","e","t","e","s">>,
                   <<"T","e","r","r","a","f","o","r","m">> >>,
         match |-> 84 ],
       [ title |-> <<"F","u","l","l","U+2011","s","t","a","c","k"," ","D","e","v","e","l","o","p","e","r">>,
         company |-> <<"N","a","u","k","r","i"," ","(","I","N",")">>,
         location |-> <<"B","e","n","g","a","l","u","r","u",","," ","I","N">>,
         tags |-> << <<"N","o","d","e",".","j","s">>,
                   <<"M","o","n","g","o","D","B">>,
                   <<"N","e","x","t",".","j","s">> >>,
         match |-> 90 ],
       [ title |-> <<"A","I"," ","P","r","o","d","u","c","t"," ","M","a","n","a","g","e","r">>,
         company |-> <<"G","l","a","s","s","d","o","o","r">>,
         location |-> <<"S","a","n"," ","F","r","a","n","c","i","s","c","o",","," ","C","A">>,
         tags |-> << <<"P","r","o","d","u","c","t">>,
                   <<"A","I">>,
                   <<"S","t","r","a","t","e","g","y">> >>,
         match |-> 86 ] >>

\* bodies of POST /api/jobs
NewJobSeq ==
    << [ title |-> <<"D","e","v","e","l","o","p","e","r"," ","A","d","v","o","c","a","t","e">>,
        company |-> <<"S","e","e","k"," ","A","U">>,
        location |-> <<"R","e","m","o","t","e">>,
        tags |-> << <<"A","W","S">> >>,
        match |-> 90 ],
      [ title |-> <<"I","n","t","e","r","n">>,
        company |-> <<"A","c","m","e">>,
        location |-> <<"A","u","s","t","i","n",","," ","T","X">>,
        tags |-> << <<"A","W","S">>,
                  <<"T","e","r","r","a","f","o","r","m">>,
                  <<"A","W","S">> >>,
        match |-> -3 ] >>

NewJobs == { NewJobSeq[k] : k \in 1..Len(NewJobSeq) }

\* every document content that can be stored
Catalog == SAMPLE_JOBS \o NewJobSeq
IndexOf(job) == CHOOSE k \in 1..Len(Catalog) : Catalog[k] = job

\* Optional[str] query parameters of GET /api/jobs
None == [t |-> "none"]
PyStr(cs) == [t |-> "str", v |-> cs]

\* the (q, tags) pairs of the list requests
ListInputs ==
    { [ q |-> None, tags |-> None ],
      [ q |-> PyStr(<<>>), tags |-> PyStr(<<" ",","," ">>) ],
      [ q |-> PyStr(<<"d","e","v">>), tags |-> None ],
      [ q |-> PyStr(<<".">>), tags |-> None ],
      [ q |-> PyStr(<<"S","e","e","k"," ","(","A","U",")">>), tags |-> None ],
      [ q |-> PyStr(<<"(">>), tags |-> None ],
      [ q |-> None, tags |-> PyStr(<<"A","W","S",","," ","T","e","r","r","a","f","o","r","m">>) ],
      [ q |-> None, tags |-> PyStr(<<"A","W","S",",","R","e","a","c","t">>) ],
      [ q |-> PyStr(<<"d","e","v">>), tags |-> PyStr(<<"A","W","S",","," ","T","e","r","r","a","f","o","r","m">>) ] }

\* case folding of the "i" option
Lower ==
    ("A" :> "a") @@ ("B" :> "b") @@ ("C" :> "c") @@ ("D" :> "d") @@ ("E" :> "e") @@ ("F" :> "f") @@
    ("G" :> "g") @@ ("H" :> "h") @@ ("I" :> "i") @@ ("J" :> "j") @@ ("K" :> "k") @@ ("L" :> "l") @@
    ("M" :> "m") @@ ("N" :> "n") @@ ("O" :> "o") @@ ("P" :> "p") @@ ("Q" :> "q") @@ ("R" :> "r") @@
    ("S" :> "s") @@ ("T" :> "t") @@ ("U" :> "u") @@ ("V" :> "v") @@ ("W" :> "w") @@ ("X" :> "x") @@
    ("Y" :> "y") @@ ("Z" :> "z")

Fold(ch) == IF ch \in DOMAIN Lower THEN Lower[ch] ELSE ch

RECURSIVE FoldAll(_)
FoldAll(cs) == IF cs = <<>> THEN <<>> ELSE <<Fold(Head(cs))>> \o FoldAll(Tail(cs))

\* The pattern language of $regex, for patterns made of literal characters,
\* "." and parentheses: a group of literals matches what its content
\* matches, "." matches any character but a newline, unbalanced parentheses
\* do not compile.
RECURSIVE Depths(_, _)
Depths(p, dep) ==
    IF p = <<>> THEN <<dep>>
    ELSE <<dep>> \o Depths(Tail(p), CASE Head(p) = "(" -> dep + 1
                                        [] Head(p) = ")" -> dep - 1
                                        [] OTHER -> dep)

RegexCompiles(p) ==
    LET ds == Depths(p, 0)
    IN  (\A k \in 1..Len(ds) : ds[k] >= 0) /\ ds[Len(ds)] = 0

IsParen(ch) == ch \in {"(", ")"}
NotParen(ch) == ~IsParen(ch)

\* the folded atoms of pattern p occur in the folded text t at position pos
MatchesAt(atoms, t, pos) ==
    \A k \in 1..Len(atoms) :
        /\ pos + k - 1 <= Len(t)
        /\ \/ atoms[k] = "." /\ t[pos + k - 1] # "\n"
           \/ atoms[k] = t[pos + k - 1]

SearchIn(atoms, t) == \E pos \in 1..(Len(t) + 1) : MatchesAt(atoms, t, pos)

\* main.py 140: {"$regex": q, "$options": "i"} applied to one field
RegexSearch(p, text) == SearchIn(FoldAll(SelectSeq(p, NotParen)), FoldAll(text))

\* main.py 141-145: "$or" over title, company, location
QMatches(doc, p) ==
    \/ RegexSearch(p, doc.title)
    \/ RegexSearch(p, doc.company)
    \/ RegexSearch(p, doc.location)

\* str.strip()
RECURSIVE LStrip(_)
LStrip(cs) == IF cs # <<>> /\ Head(cs) = " " THEN LStrip(Tail(cs)) ELSE cs
RECURSIVE RStrip(_)
RStrip(cs) ==
    IF cs # <<>> /\ cs[Len(cs)] = " " THEN RStrip(SubSeq(cs, 1, Len(cs) - 1)) ELSE cs
Strip(cs) == RStrip(LStrip(cs))

\* str.split(","): the pieces between the commas, empty ones included
RECURSIVE Split(_, _)
Split(cs, cur) ==
    IF cs = <<>> THEN <<cur>>
    ELSE IF Head(cs) = "," THEN <<cur>> \o Split(Tail(cs), <<>>)
    ELSE Split(Tail(cs), Append(cur, Head(cs)))

NonEmptySeq(cs) == cs # <<>>
RECURSIVE MapStrip(_)
MapStrip(ps) == IF ps = <<>> THEN <<>> ELSE <<Strip(Head(ps))>> \o MapStrip(Tail(ps))

\* main.py 148: [t.strip() for t in tags.split(",") if t.strip()]
TagList(cs) == SelectSeq(MapStrip(Split(cs, <<>>)), NonEmptySeq)

\* main.py 150: {"tags": {"$all": tag_list}}
\* variant of TagsMatch with $in for $all (C9)
TagsMatch_any(doc, tag_list) ==
    \E k \in 1..Len(tag_list) : \E i \in 1..Len(doc.tags) : doc.tags[i] = tag_list[k]
TagsMatch(doc, tag_list) ==
    \A k \in 1..Len(tag_list) : \E i \in 1..Len(doc.tags) : doc.tags[i] = tag_list[k]

\* bool(s) of an Optional[str]
Given(s) == s.t = "str" /\ s.v # <<>>

\* main.py 137-150: the query built from q and tags
Query(q, tags) ==
    [ or |-> IF Given(q) THEN q ELSE None,
      all |-> IF Given(tags) /\ TagList(tags.v) # <<>> THEN PyStr(TagList(tags.v)) ELSE None ]

\* a document satisfies the query
QueryMatches(doc, query) ==
    /\ query.or # None => QMatches(doc, query.or.v)
    /\ query.all # None => TagsMatch(doc, query.all.v)

\* count_documents({})
CountDocuments(coll) ==
    LET RECURSIVE Sum(_)
        Sum(k) == IF k = 0 THEN 0 ELSE coll[k] + Sum(k - 1)
    IN  Sum(Len(coll))

\* database.create_document(COLLECTION, job): insert, the store assigns the id
CreateDocument(coll, job) == [coll EXCEPT ![IndexOf(job)] = @ + 1]

\* the copies n..upto of the document of content Catalog[k]
RECURSIVE Copies(_, _, _)
Copies(k, n, upto) ==
    IF n > upto THEN <<>>
    ELSE << [ oid |-> <<k, n>> ] @@ Catalog[k] >> \o Copies(k, n + 1, upto)

RECURSIVE Reverse(_)
Reverse(sq) == IF sq = <<>> THEN <<>> ELSE Append(Reverse(Tail(sq)), Head(sq))

\* the stored documents that satisfy the query, in the order of Catalog
RECURSIVE Find(_, _, _)
Find(coll, query, k) ==
    IF k > Len(coll) THEN <<>>
    ELSE (IF coll[k] > 0 /\ QueryMatches(Catalog[k], query)
          THEN Copies(k, 1, coll[k]) ELSE <<>>) \o Find(coll, query, k + 1)

\* database.get_documents(COLLECTION, query): the matching documents, in the
\* order the store retrieves them (rev: one of the orders it may use)
GetDocuments(coll, query, rev) ==
    IF rev THEN Reverse(Find(coll, query, 1)) ELSE Find(coll, query, 1)

\* main.py 155-157: d["id"] = str(d.pop("_id"))
NormalizeId(doc) ==
    [ k \in (DOMAIN doc \ {"oid"}) \cup {"id"} |->
        IF k = "id" THEN <<"str", doc.oid>> ELSE doc[k] ]

RECURSIVE MapNormalizeId(_)
MapNormalizeId(docs) ==
    IF docs = <<>> THEN <<>> ELSE <<NormalizeId(Head(docs))>> \o MapNormalizeId(Tail(docs))

\* main.py 160: docs.sort(key=lambda x: x.get("match", 0), reverse=True);
\* the sort is stable: records of equal match keep their order
SortKey(doc) == IF "match" \in DOMAIN doc THEN doc.match ELSE 0

RECURSIVE InsertDesc(_, _)
InsertDesc(sorted, doc) ==
    IF sorted = <<>> THEN <<doc>>
    ELSE IF SortKey(Head(sorted)) >= SortKey(doc)
         THEN <<Head(sorted)>> \o InsertDesc(Tail(sorted), doc)
         ELSE <<doc>> \o sorted

RECURSIVE SortFrom(_, _)
SortFrom(sorted, docs) ==
    IF docs = <<>> THEN sorted ELSE SortFrom(InsertDesc(sorted, Head(docs)), Tail(docs))

\* variant of SortByMatchDesc that leaves the retrieval order (C8)
SortByMatchDesc_unsorted(docs) == docs
SortByMatchDesc(docs) == SortFrom(<<>>, docs)

-----------------------------------------------------------------------------
(* Job catalog requests.  lst[r].pc is start, seed, query or done;         *)
(* lst[r].empty is the outcome of the count_documents test, lst[r].i the   *)
(* position of the loop over SAMPLE_JOBS, lst[r].inserted what the request *)
(* has inserted.                                                           *)

\* main.py 135, 115-118: _ensure_seed_data up to the emptiness test
\* variant of ensure_seed_data that seeds whatever the count is (C4)
ensure_seed_data_always(r) ==
    /\ lst[r].pc = "start"
    /\ lst' = [lst EXCEPT ![r].pc = IF db THEN "seed" ELSE "query",
                          ![r].i = IF db THEN 1 ELSE 0,
                          ![r].empty = db /\ CountDocuments(jobs) = 0]
    /\ resp' = NoResp
    /\ UNCHANGED <<cfg, db, clock, profiles, wlog, cb, jobs, ncreated>>
ensure_seed_data(r) ==
    /\ lst[r].pc = "start"
    /\ IF ~db
       THEN lst' = [lst EXCEPT ![r].pc = "query"]
       ELSE IF CountDocuments(jobs) = 0
       THEN lst' = [lst EXCEPT ![r].pc = "seed", ![r].i = 1, ![r].empty = TRUE]
       ELSE lst' = [lst EXCEPT ![r].pc = "query"]
    /\ resp' = NoResp
    /\ UNCHANGED <<cfg, db, clock, profiles, wlog, cb, jobs, ncreated>>

\* main.py 119-120: one turn of the loop over SAMPLE_JOBS
\* variants of ensure_seed_data_insert: one that inserts a sample only if no
\* copy of it is stored (C17), one whose loop leaves out the last sample (C20)
ensure_seed_data_insert_ifabsent(r) ==
    /\ lst[r].pc = "seed"
    /\ jobs' = IF jobs[lst[r].i] = 0 THEN CreateDocument(jobs, SAMPLE_JOBS[lst[r].i]) ELSE jobs
    /\ lst' = [lst EXCEPT ![r].inserted = Append(@, SAMPLE_JOBS[lst[r].i]),
                          ![r].i = IF lst[r].i = Len(SAMPLE_JOBS) THEN 0 ELSE @ + 1,
                          ![r].pc = IF lst[r].i = Len(SAMPLE_JOBS) THEN "query" ELSE @]
    /\ resp' = NoResp
    /\ UNCHANGED <<cfg, db, clock, profiles, wlog, cb, ncreated>>
ensure_seed_data_insert_short(r) ==
    /\ lst[r].pc = "seed"
    /\ jobs' = CreateDocument(jobs, SAMPLE_JOBS[lst[r].i])
    /\ lst' = [lst EXCEPT ![r].inserted = Append(@, SAMPLE_JOBS[lst[r].i]),
                          ![r].i = IF lst[r].i = Len(SAMPLE_JOBS) - 1 THEN 0 ELSE @ + 1,
                          ![r].pc = IF lst[r].i = Len(SAMPLE_JOBS) - 1 THEN "query" ELSE @]
    /\ resp' = NoResp
    /\ UNCHANGED <<cfg, db, clock, profiles, wlog, cb, ncreated>>
ensure_seed_data_insert(r) ==
    /\ lst[r].pc = "seed"
    /\ jobs' = CreateDocument(jobs, SAMPLE_JOBS[lst[r].i])
    /\ lst' = [lst EXCEPT ![r].inserted = Append(@, SAMPLE_JOBS[lst[r].i]),
                          ![r].i = IF lst[r].i = Len(SAMPLE_JOBS) THEN 0 ELSE @ + 1,
                          ![r].pc = IF lst[r].i = Len(SAMPLE_JOBS) THEN "query" ELSE @]
    /\ resp' = NoResp
    /\ UNCHANGED <<cfg, db, clock, profiles, wlog, cb, ncreated>>

\* main.py 137-162: query, id normalisation, sort, response.  A failure of
\* the store call (no store, a pattern that does not compile) is a 500.
list_jobs(r) ==
    /\ lst[r].pc = "query"
    /\ \E in \in ListInputs, rev \in BOOLEAN :
        resp' = IF ~db \/ (Given(in.q) /\ ~RegexCompiles(in.q.v))
                THEN [op |-> "list", req |-> r, q |-> in.q, tags |-> in.tags, status |-> 500]
                ELSE LET docs == SortByMatchDesc(
                                   MapNormalizeId(GetDocuments(jobs, Query(in.q, in.tags), rev)))
                     IN  [op |-> "list", req |-> r, q |-> in.q, tags |-> in.tags,
                          status |-> 200, items |-> docs, count |-> Len(docs)]
    /\ lst' = [lst EXCEPT ![r].pc = "done"]
    /\ UNCHANGED <<cfg, db, clock, profiles, wlog, cb, jobs, ncreated>>

\* main.py 165-168
create_job(job) ==
    /\ ncreated < MaxCreated
    /\ ncreated' = ncreated + 1
    /\ IF db
       THEN /\ jobs' = CreateDocument(jobs, job)
            /\ resp' = [op |-> "create", status |-> 200,
                        id |-> <<"str", <<IndexOf(job), jobs[IndexOf(job)] + 1>> >>]
       ELSE /\ jobs' = jobs
            /\ resp' = [op |-> "create", status |-> 500]
    /\ UNCHANGED <<cfg, db, clock, profiles, wlog, cb, lst>>

-----------------------------------------------------------------------------
(* Specifications.  The identity exchange on its own: the job collection   *)
(* is not touched.                                                         *)

Init ==
    /\ cfg \in [ id : EnvValues, secret : EnvValues, redirect : EnvValues ]
    /\ db \in BOOLEAN
    /\ clock = 1
    /\ profiles = <<>>
    /\ wlog = <<>>
    /\ cb = [ c \in Callbacks |-> NewCallback ]
    /\ jobs = [ k \in 1..Len(Catalog) |-> 0 ]
    /\ lst = [ r \in Lists |-> [ pc |-> "start", i |-> 0, empty |-> FALSE, inserted |-> <<>> ] ]
    /\ ncreated = 0
    /\ resp = NoResp

NextAuth ==
    \/ \E c \in Callbacks : linkedin_callback_config(c)
    \/ \E c \in Callbacks : linkedin_callback_token(c)
    \/ \E c \in Callbacks : linkedin_callback_me(c)
    \/ \E c \in Callbacks : linkedin_callback_email(c)
    \/ \E c \in Callbacks : linkedin_callback_upsert(c)
    \/ \E id \in LookupIds : get_linked_in_user(id)
    \/ linkedin_login

SpecAuth == Init /\ [][NextAuth]_vars

-----------------------------------------------------------------------------
(* Properties of the identity exchange *)

\* the upserts made by request c
WritesOf(c) == { i \in 1..Len(wlog) : wlog[i].req = c }
\* the upserts made for external id x
WritesFor(x) == { i \in 1..Len(wlog) : wlog[i].id = x }
Max(S) == CHOOSE x \in S : \A y \in S : x >= y

\* C1: a callback whose token exchange or profile fetch answered with a
\* status other than 200 ends in an error carrying that status, and that
\* request made no write to the profile collection.
C1_UpstreamFailure ==
    \A c \in Callbacks :
        LET up == IF cb[c].tok \notin {0, 200} THEN cb[c].tok
                  ELSE IF cb[c].mes \notin {0, 200} THEN cb[c].mes ELSE 0
        IN  up # 0 =>
              /\ cb[c].pc = "done"
              /\ cb[c].status = up
              /\ WritesOf(c) = {}
              /\ (resp.op = "callback" /\ resp.req = c) => (resp.status = up /\ "body" \notin DOMAIN resp)

C1_Witness ==
    \E c1, c2 \in Callbacks :
        /\ cb[c1].tok = 401 /\ cb[c1].status = 401
        /\ cb[c2].mes = 403 /\ cb[c2].status = 403
        /\ profiles = <<>>

\* C2: the profile collection never holds two records with the same
\* external id.
C2_OnePerExternalId ==
    \A i, j \in 1..Len(profiles) :
        profiles[i].linkedin_id = profiles[j].linkedin_id => i = j

C2_Witness ==
    \E c1, c2 \in Callbacks :
        /\ c1 # c2
        /\ WritesOf(c1) # {} /\ WritesOf(c2) # {}
        /\ \E i \in WritesOf(c1), j \in WritesOf(c2) : wlog[i].id = wlog[j].id
        /\ Len(profiles) = 1

\* C3: the stored record of an external id has created_at equal to the time
\* of the first upsert made for that id and updated_at equal to the time of
\* the latest upsert made for it.
C3_Timestamps ==
    \A i \in 1..Len(profiles) :
        LET w == WritesFor(profiles[i].linkedin_id)
        IN  /\ w # {}
            /\ profiles[i].created_at = wlog[Min(w)].now
            /\ profiles[i].updated_at = wlog[Max(w)].now

C3_Witness ==
    \E i \in 1..Len(profiles) :
        /\ Cardinality(WritesFor(profiles[i].linkedin_id)) = 2
        /\ profiles[i].created_at # profiles[i].updated_at

NotSet(v) == v = JNull \/ v = JStr("")

C6_NotConfigured ==
    (NotSet(cfg.id) \/ NotSet(cfg.secret) \/ NotSet(cfg.redirect)) =>
        /\ profiles = <<>> /\ wlog = <<>>
        /\ \A c \in Callbacks :
              /\ cb[c].calls = <<>>
              /\ cb[c].pc \in {"start", "done"}
              /\ cb[c].pc = "done" => cb[c].status = 400
        /\ resp.op = "callback" => resp.status = 400

C6_Witness ==
    /\ NotSet(cfg.secret) /\ ~NotSet(cfg.id) /\ ~NotSet(cfg.redirect)
    /\ \E c \in Callbacks : cb[c].pc = "done" /\ cb[c].status = 400
    /\ resp.op = "callback"

\* C7: with the store available, a lookup answers 404 exactly when no
\* callback ever upserted a profile with that external id, answers 200 with
\* the stored record of that id otherwise, and leaves the store unchanged.
C7_LookupAnswer ==
    (resp.op = "lookup" /\ db) =>
        /\ resp.status \in {200, 404}
        /\ resp.status = 404 <=> WritesFor(JStr(resp.id)) = {}
        /\ resp.status = 200 =>
              \E i \in 1..Len(profiles) :
                  /\ profiles[i].linkedin_id = JStr(resp.id)
                  /\ resp.body.id = <<"str", profiles[i].oid>>
                  /\ \A k \in DOMAIN profiles[i] \ {"oid"} : resp.body[k] = profiles[i][k]

C7_Lookup ==
    [][ (resp'.op = "lookup" /\ resp' # resp) =>
            (profiles' = profiles /\ wlog' = wlog /\ C7_LookupAnswer') ]_vars

C7_Witness ==
    /\ resp.op = "lookup" /\ resp.status = 200 /\ resp.id = "42"
    /\ Len(profiles) = 2

\* the token exchange of request c answered 200 without an access_token field
NoTokenField(c) == cb[c].tok = 200 /\ cb[c].nofield

\* the request stopped after the token exchange and wrote nothing
AbortedAfterToken(c) ==
    /\ cb[c].pc = "done"
    /\ cb[c].calls = <<"token">>
    /\ WritesOf(c) = {}

\* C11 as stated: when the token exchange answers 200 without an
\* access-token field, the callback aborts (no profile fetch, no email fetch,
\* no write) and its error carries the upstream status and the upstream body.
C11_CarriesUpstream ==
    \A c \in Callbacks :
        NoTokenField(c) =>
            /\ AbortedAfterToken(c)
            /\ cb[c].status = cb[c].tok
            /\ (resp.op = "callback" /\ resp.req = c) =>
                   /\ resp.status = cb[c].tok
                   /\ \E i \in 1..Len(resp.detail) : resp.detail[i] = "tok-none"

\* C11 amended: when the token exchange answers 200 without an access-token
\* field, the callback aborts (no profile fetch, no email fetch, no write)
\* and answers 400 with the fixed detail "No access token in response",
\* which carries neither the upstream status nor the upstream body.
C11_NoAccessToken ==
    \A c \in Callbacks :
        NoTokenField(c) =>
            /\ AbortedAfterToken(c)
            /\ cb[c].status = 400
            /\ (resp.op = "callback" /\ resp.req = c) =>
                   /\ resp.status = 400
                   /\ resp.detail = <<"No access token in response">>

C11_Witness ==
    \E c \in Callbacks :
        /\ NoTokenField(c)
        /\ resp.op = "callback" /\ resp.req = c /\ resp.status = 400
        /\ \E d \in Callbacks : d # c /\ cb[d].status = 200

\* C13 as stated: when the store is unavailable, a callback request fails
\* with PersistenceUnavailable (500) and a lookup request fails with 500;
\* neither returns a profile.
C13_AlwaysPersistenceUnavailable ==
    ~db =>
        /\ \A c \in Callbacks : cb[c].pc = "done" => cb[c].status = 500
        /\ resp.op = "callback" =>
               /\ resp.status = 500
               /\ resp.detail = <<"Database not available">>
               /\ "body" \notin DOMAIN resp
        /\ resp.op = "lookup" => resp.status = 500 /\ "body" \notin DOMAIN resp

\* C13 amended: when the store is unavailable, a lookup request fails with
\* 500, and a callback request fails with PersistenceUnavailable (500) once
\* it is configured and its token exchange and profile fetch have succeeded,
\* after the three provider calls; a callback that fails earlier answers
\* with that failure.  No callback succeeds, nothing is written, and neither
\* operation returns a profile.
C13_StoreUnavailable ==
    ~db =>
        /\ profiles = <<>> /\ wlog = <<>>
        /\ \A c \in Callbacks :
               /\ cb[c].pc # "upsert"
               /\ cb[c].pc = "done" =>
                      /\ cb[c].status # 200
                      /\ cb[c].mes = 200 =>
                             /\ cb[c].status = 500
                             /\ cb[c].calls = <<"token", "me", "email">>
        /\ resp.op = "callback" =>
               /\ resp.status # 200
               /\ "body" \notin DOMAIN resp
               /\ cb[resp.req].mes = 200 =>
                      /\ resp.status = 500
                      /\ resp.detail = <<"Database not available">>
        /\ resp.op = "lookup" =>
               /\ resp.status = 500
               /\ resp.detail = <<"Database not available">>
               /\ "body" \notin DOMAIN resp

C13_Witness ==
    /\ ~db
    /\ resp.op = "lookup" /\ resp.status = 500
    /\ \E c \in Callbacks :
           cb[c].pc = "done" /\ cb[c].mes = 200 /\ cb[c].status = 500

\* C12 as stated: every stored profile has a non-empty external id, also
\* when the provider's profile response had no id.
C12_NonEmptyId ==
    \A i \in 1..Len(profiles) :
        /\ profiles[i].linkedin_id.t = "str"
        /\ profiles[i].linkedin_id.v # ""

\* C14 as stated: the profile returned by a successful callback carries the
\* timestamps of the stored record of its external id: its created_at is
\* the stored created_at and its updated_at the stored updated_at, also when
\* the call refreshes an existing profile.
C14_ReturnedTimestamps ==
    (resp.op = "callback" /\ resp.status = 200) =>
        LET doc == FindOne(profiles, resp.body.linkedin_id)
        IN  /\ doc # JNull
            /\ resp.body.created_at = IsoFormat(doc.created_at)
            /\ resp.body.updated_at = IsoFormat(doc.updated_at)

\* no step removes a stored profile or changes its identity
NoDelete ==
    \A i \in 1..Len(profiles) :
        /\ i <= Len(profiles')
        /\ profiles'[i].oid = profiles[i].oid
        /\ profiles'[i].linkedin_id = profiles[i].linkedin_id

\* a finished request has upserted once if it succeeded and never if it
\* failed; an unfinished one has not upserted
UpsertCount ==
    \A c \in Callbacks :
        Cardinality(WritesOf(c)) =
            IF cb[c].pc = "done" /\ cb[c].status = 200 THEN 1 ELSE 0

\* C15: each callback request that succeeds performs exactly one upsert,
\* each one that ends in an error performs none, and no operation ever
\* deletes a profile record (the collection changes only by an upsert).
C15_OneUpsert ==
    [][ /\ NoDelete
        /\ UpsertCount'
        /\ (profiles' # profiles) => Len(wlog') = Len(wlog) + 1
        /\ Len(profiles') <= Len(profiles) + 1 ]_vars

C15_Witness ==
    \E c, d \in Callbacks :
        /\ cb[c].pc = "done" /\ cb[c].status = 200
        /\ cb[d].pc = "done" /\ cb[d].status \notin {0, 200}
        /\ Cardinality(WritesOf(c)) = 1 /\ WritesOf(d) = {}
        /\ Len(profiles) = 1

CallOrder == <<"token", "me", "email">>

\* C16: a callback request makes its outbound calls in the order token
\* exchange, profile fetch, email fetch, each at most once; the profile
\* fetch only after the token exchange answered 200 with an access token,
\* the email fetch only after the profile fetch answered 200, and the upsert
\* only after the email fetch has completed.
C16_CallOrder ==
    \A c \in Callbacks :
        LET n == Len(cb[c].calls)
        IN  /\ n <= Len(CallOrder)
            /\ cb[c].calls = SubSeq(CallOrder, 1, n)
            /\ (n >= 2 \/ cb[c].pc = "me") => (cb[c].tok = 200 /\ ~cb[c].nofield)
            /\ (n >= 3 \/ cb[c].pc = "email") => cb[c].mes = 200
            /\ (cb[c].pc = "upsert" \/ WritesOf(c) # {}) => n = 3

C16_Witness ==
    \E c, d \in Callbacks :
        /\ cb[c].status = 200 /\ cb[c].calls = CallOrder /\ WritesOf(c) # {}
        /\ cb[d].pc = "done" /\ cb[d].calls = <<"token", "me">> /\ cb[d].mes = 403

\* C18: the upsert is last-write-wins without merge: every profile field of
\* a stored record (all but created_at) has the value computed by the latest
\* successful callback for its external id, so a field that is absent in
\* that call (email after a failed email fetch) replaces an earlier value.
C18_LastWriteWins ==
    /\ \A i \in 1..Len(profiles) :
           LET w == wlog[Max(WritesFor(profiles[i].linkedin_id))]
           IN  /\ \A f \in DOMAIN w.profile : profiles[i][f] = w.profile[f]
               /\ profiles[i].updated_at = w.now
    /\ (resp.op = "callback" /\ resp.status = 200) =>
           LET doc == FindOne(profiles, resp.body.linkedin_id)
           IN  /\ doc # JNull
               /\ \A f \in DOMAIN resp.body \ {"created_at", "updated_at"} :
                      doc[f] = resp.body[f]
               /\ IsoFormat(doc.updated_at) = resp.body.updated_at

C18_Witness ==
    /\ resp.op = "callback" /\ resp.status = 200
    /\ resp.body.email = JNull
    /\ \E w \in WritesFor(resp.body.linkedin_id) : wlog[w].profile.email # JNull
    /\ FindOne(profiles, resp.body.linkedin_id).email = JNull

\* C19: the outcome of a callback request does not depend on its state
\* parameter: the state enters the handler only on arrival, and every step
\* by which a request arrives is the step of an arrival with any other
\* state (missing, the value linkedin_login issues, or a different one), so
\* two requests that differ only in state go on from the same point.
C19_StateIgnored ==
    [][ \A c \in Callbacks :
           (cb[c].pc = "start" /\ cb'[c].pc # "start") =>
               \A code \in Codes, state \in States : callback_arrives(c, code, state) ]_vars

C19_Witness ==
    \E c, d \in Callbacks :
        /\ cb[d].status = 200
        /\ cb[c].pc = "start"
        /\ ENABLED (callback_arrives(c, "code-1", JStr("forged")) /\ cb'[c].pc = "token")


-----------------------------------------------------------------------------
(* The job catalog on its own: the identity exchange is not touched *)

InitJobs ==
    /\ Init
    /\ cfg = [ id |-> JStr("set"), secret |-> JStr("set"), redirect |-> JStr("set") ]

NextJobs ==
    \/ \E r \in Lists : ensure_seed_data(r)
    \/ \E r \in Lists : ensure_seed_data_insert(r)
    \/ \E r \in Lists : list_jobs(r)
    \/ \E job \in NewJobs : create_job(job)

SpecJobs == InitJobs /\ [][NextJobs]_vars

\* list requests served one after another: at most one is in progress
InProgress == { r \in Lists : lst[r].pc \in {"seed", "query"} }
Sequential == Cardinality(InProgress) <= 1

\* a list request is taken up only when no other one is in progress
ensure_seed_data_serial(r) == ensure_seed_data(r) /\ Sequential'

NextJobsSeq ==
    \/ \E r \in Lists : ensure_seed_data_serial(r)
    \/ \E r \in Lists : ensure_seed_data_insert(r)
    \/ \E r \in Lists : list_jobs(r)
    \/ \E job \in NewJobs : create_job(job)

SpecJobsSeq == InitJobs /\ [][NextJobsSeq]_vars

-----------------------------------------------------------------------------
(* Properties of the job catalog *)

\* the stored documents whose content is one of the samples
SampleCopies(k) == jobs[k]

\* C4: with list requests served one after another, a list request that
\* finds the collection empty inserts the five sample jobs, each once and
\* nothing else, a list request that finds it non-empty inserts nothing, and
\* no sample job is ever stored twice.
C4_SeedingState ==
    /\ \A r \in Lists :
          (db /\ lst[r].pc \in {"query", "done"}) =>
              lst[r].inserted = (IF lst[r].empty THEN SAMPLE_JOBS ELSE <<>>)
    /\ \A k \in 1..Len(SAMPLE_JOBS) : SampleCopies(k) <= 1

C4_Seeding ==
    [][ /\ \A r \in Lists :
              (lst[r].pc = "start" /\ lst'[r].pc # "start") =>
                  (lst'[r].empty <=> (db /\ \A k \in 1..Len(Catalog) : jobs[k] = 0))
        /\ C4_SeedingState' ]_vars

C4_Witness ==
    \E r1, r2 \in Lists :
        /\ lst[r1].pc = "done" /\ lst[r1].empty /\ lst[r1].inserted = SAMPLE_JOBS
        /\ lst[r2].pc = "done" /\ ~lst[r2].empty /\ lst[r2].inserted = <<>>
        /\ \A k \in 1..Len(SAMPLE_JOBS) : SampleCopies(k) = 1

\* C8: the items of every list response are in descending order of match.
C8_SortedByMatchDesc ==
    (resp.op = "list" /\ resp.status = 200) =>
        \A i, j \in 1..Len(resp.items) :
            i < j => resp.items[i].match >= resp.items[j].match

C8_Witness ==
    /\ resp.op = "list" /\ resp.status = 200
    /\ Len(resp.items) >= 6
    /\ \E i \in 1..(Len(resp.items) - 1) : resp.items[i].match = resp.items[i + 1].match
    /\ resp.items[1].match > resp.items[Len(resp.items)].match

\* the tags provided by a tags parameter: the pieces between the commas,
\* without the spaces around them, the empty ones left out
Pieces(cs) ==
    { SubSeq(cs, ab[1], ab[2]) :
        ab \in { x \in (1..(Len(cs) + 1)) \X (0..Len(cs)) :
                   /\ x[1] <= x[2] + 1
                   /\ x[1] = 1 \/ cs[x[1] - 1] = ","
                   /\ x[2] = Len(cs) \/ cs[x[2] + 1] = ","
                   /\ \A k \in x[1]..x[2] : cs[k] # "," } }

Trimmed(cs) ==
    LET ink == { k \in 1..Len(cs) : cs[k] # " " }
    IN  IF ink = {} THEN <<>> ELSE SubSeq(cs, Min(ink), Max(ink))

ProvidedTags(tags) ==
    IF tags.t # "str" THEN {} ELSE { Trimmed(x) : x \in Pieces(tags.v) } \ { <<>> }

TagsOf(doc) == { doc.tags[i] : i \in 1..Len(doc.tags) }

\* C9: when the tags parameter provides at least one tag, every item of the
\* list response carries all the provided tags, with or without q.
C9_AllTags ==
    (resp.op = "list" /\ resp.status = 200 /\ ProvidedTags(resp.tags) # {}) =>
        \A i \in 1..Len(resp.items) : ProvidedTags(resp.tags) \subseteq TagsOf(resp.items[i])

C9_Witness ==
    /\ resp.op = "list" /\ resp.status = 200
    /\ Cardinality(ProvidedTags(resp.tags)) = 2
    /\ Given(resp.q)
    /\ resp.items # <<>>
    /\ \E k \in 1..Len(Catalog) :
          /\ jobs[k] > 0
          /\ TagsOf(Catalog[k]) \cap ProvidedTags(resp.tags) # {}
          /\ ~(ProvidedTags(resp.tags) \subseteq TagsOf(Catalog[k]))

\* q occurs in text as a substring, letter case ignored
SubstringCI(q, text) ==
    \E pos \in 1..(Len(text) + 1) :
        \A k \in 1..Len(q) :
            pos + k - 1 <= Len(text) /\ Fold(q[k]) = Fold(text[pos + k - 1])

QOccurs(q, doc) ==
    SubstringCI(q, doc.title) \/ SubstringCI(q, doc.company) \/ SubstringCI(q, doc.location)

\* C10: for a non-empty q (and no tags), the list response holds exactly
\* the stored records in whose title, company or location q occurs as a
\* substring, letter case ignored.
C10_QSubstring ==
    (resp.op = "list" /\ db /\ Given(resp.q) /\ ProvidedTags(resp.tags) = {}) =>
        /\ resp.status = 200
        /\ \A k \in 1..Len(Catalog) :
              jobs[k] > 0 =>
                  (QOccurs(resp.q.v, Catalog[k]) <=>
                      \E i \in 1..Len(resp.items) : resp.items[i].id[2][1] = k)

\* the list requests that saw the collection empty and have gone through
\* the whole seeding loop
Seeded == { r \in Lists : lst[r].empty /\ lst[r].pc \in {"query", "done"} }

\* C17: the emptiness test and the inserts of the seeding are not atomic:
\* two concurrent list requests on an empty collection can both see it
\* empty, and when both have seen it empty both insert the samples, so that
\* every sample job is stored as many times as there are such requests.
C17_DuplicateSeed ==
    /\ \A r \in Seeded : lst[r].inserted = SAMPLE_JOBS
    /\ \A k \in 1..Len(SAMPLE_JOBS) :
           /\ SampleCopies(k) >= Cardinality(Seeded)
           /\ SampleCopies(k) = Cardinality({ r \in Lists : Len(lst[r].inserted) >= k })

C17_Witness ==
    \E r1, r2 \in Lists :
        /\ r1 # r2
        /\ lst[r1].empty /\ lst[r1].pc = "done"
        /\ lst[r2].empty /\ lst[r2].pc = "done"
        /\ \A k \in 1..Len(SAMPLE_JOBS) : SampleCopies(k) = 2

\* the number of items of the response that are copies of Catalog[k]
ItemsOf(k) == Cardinality({ i \in 1..Len(resp.items) : resp.items[i].id[2][1] = k })

\* a list request made without q and without tags, the store available
PlainList == resp.op = "list" /\ db /\ resp.q = None /\ resp.tags = None

\* C20 as stated: with the store available, every response of a list
\* request without q and without tags contains all five sample jobs, also
\* when another list request is in the middle of seeding.
C20_AllFiveSamples ==
    PlainList =>
        /\ resp.status = 200
        /\ \A k \in 1..Len(SAMPLE_JOBS) : ItemsOf(k) >= 1

\* C20 amended: with the store available, a list request without q and
\* without tags returns every job stored at the time of its query, and all
\* five sample jobs if the request itself found the collection empty, also
\* while another list request is in the middle of seeding.
C20_SeederSeesAll ==
    PlainList =>
        /\ resp.status = 200
        /\ \A k \in 1..Len(Catalog) : ItemsOf(k) = jobs[k]
        /\ lst[resp.req].empty => \A k \in 1..Len(SAMPLE_JOBS) : ItemsOf(k) >= 1

C20_Witness ==
    /\ PlainList /\ resp.status = 200
    /\ lst[resp.req].empty
    /\ \E r \in Lists :
           /\ r # resp.req /\ lst[r].pc = "seed" /\ lst[r].i = 3
           /\ ItemsOf(1) = 2 /\ ItemsOf(Len(SAMPLE_JOBS)) = 1

====
